---- MODULE Spec2Model ----
(***************************************************************************)
(* A model of FindMyFont.py: the ranking scoreboard (addScore), the        *)
(* per-letter difference computed by match, and the main candidate loop.   *)
(*                                                                         *)
(* Numbers: Python computes the scores in IEEE 754 double precision, and   *)
(* so does the model: a float is the number (-1)^neg * m * 2^e kept as     *)
(* [neg, m, e] with m odd (or m = 0, e = 0, no sign), m a natural number   *)
(* of at most 53 bits written as a sequence of limbs, lowest first.  Every *)
(* operation of the source (/, +, *, -, <=) is the exact result rounded to *)
(* the nearest float, ties to even.  The numbers met here are far from     *)
(* overflow and underflow.                                                 *)
(* Sequences are 1-based here and 0-based in the source.                   *)
(***************************************************************************)
EXTENDS Integers, Sequences, FiniteSets, TLC

VARIABLES
    ranking,   \* the module-level scoreboard (line 68): a sequence of <<score, url>>
    history,   \* the <<score, url>> arguments of the addScore calls made so far, in order
    before,    \* the scoreboard as it was when the latest addScore call began
    r1, r2,    \* the two letter shapes handed to the body of match's loop
    res,       \* what that body produced: NoResult before it ran, an error, or a score
    pc,        \* the position of the main program
    fonts,     \* the loop variable of the candidate loop (line 216)
    reference, \* what is stored at location1
    catalog,   \* data['items'] (line 207) as the fonts their 'regular' files hold
    visited,   \* the catalog indices (0-based) fetched so far (line 221), in order
    output     \* what has been printed apart from the urls: messages, the scoreboard

vars == <<ranking, history, before, r1, r2, res, pc, fonts, reference, catalog,
          visited, output>>

(***************************************************************************)
(* Bounds of the model.                                                    *)
(***************************************************************************)
\* the number of addScore calls a behaviour of Spec makes
MaxCalls == 6
\* how far, in units in the last place, the area the geometry library
\* returns for a region whose coordinates are not Plain may be from the exact
\* area
AreaUlps == 2

(***************************************************************************)
(* Floating-point arithmetic.                                              *)
(***************************************************************************)
(***************************************************************************)
(* Floating-point arithmetic.                                              *)
(***************************************************************************)
Min(S) == CHOOSE x \in S : \A y \in S : x <= y
Max(S) == CHOOSE x \in S : \A y \in S : y <= x

\* natural numbers: sequences of limbs of LimbBits bits, lowest limb first,
\* without leading zero limbs (0 is the empty sequence)
LimbBits == 15
Base == 32768
MantBits == 53

\* limb i of a, 0 beyond its ends
Limb(a, i) == IF i \in DOMAIN a THEN a[i] ELSE 0

BigNorm(a) ==
    LET nz == {i \in DOMAIN a : a[i] # 0}
    IN  IF nz = {} THEN <<>> ELSE SubSeq(a, 1, Max(nz))

BigFromInt(n) == BigNorm([i \in 1..3 |-> (n \div Base^(i - 1)) % Base])

\* the carry into limb i of a + b: the highest limb below i whose sum is not
\* Base - 1 decides it
Carry(a, b, i) ==
    LET S == {j \in 1..(i - 1) : Limb(a, j) + Limb(b, j) # Base - 1}
    IN  IF S = {} THEN 0
        ELSE IF Limb(a, Max(S)) + Limb(b, Max(S)) >= Base THEN 1 ELSE 0
BigAdd(a, b) ==
    IF a = <<>> THEN b
    ELSE IF b = <<>> THEN a
    ELSE BigNorm([i \in 1..(Max({Len(a), Len(b)}) + 1) |->
                     (Limb(a, i) + Limb(b, i) + Carry(a, b, i)) % Base])

\* the borrow from limb i of a - b: the highest limb below i where a and b
\* differ decides it
Borrow(a, b, i) ==
    LET S == {j \in 1..(i - 1) : Limb(a, j) # Limb(b, j)}
    IN  IF S = {} THEN 0
        ELSE IF Limb(a, Max(S)) < Limb(b, Max(S)) THEN 1 ELSE 0
\* a - b for a >= b
BigSub(a, b) ==
    IF b = <<>> THEN a
    ELSE BigNorm([i \in 1..Len(a) |->
                     (Limb(a, i) - Limb(b, i) - Borrow(a, b, i) + Base) % Base])

\* -1, 0, 1: the longer is the greater; of two of one length, the highest
\* limb where they differ decides
BigCmp(a, b) ==
    IF Len(a) # Len(b) THEN (IF Len(a) < Len(b) THEN -1 ELSE 1)
    ELSE LET S == {j \in 1..Len(a) : a[j] # b[j]}
         IN  IF S = {} THEN 0
             ELSE IF a[Max(S)] < b[Max(S)] THEN -1 ELSE 1

\* a * k for 0 <= k < Base: at limb i the low limb of a[i] * k and the high
\* limb of a[i - 1] * k meet (P), and the carries go as in BigAdd (C)
BigMulSmall(a, k) ==
    IF a = <<>> \/ k = 0 THEN <<>>
    ELSE LET P(i) == ((Limb(a, i) * k) % Base) + ((Limb(a, i - 1) * k) \div Base)
             C(i) == LET S == {j \in 1..(i - 1) : P(j) # Base - 1}
                     IN  IF S = {} THEN 0
                         ELSE IF P(Max(S)) >= Base THEN 1 ELSE 0
         IN  BigNorm([i \in 1..(Len(a) + 1) |-> (P(i) + C(i)) % Base])

\* a * (limbs j..Len(b) of b)
RECURSIVE BigMulFrom(_, _, _)
BigMulFrom(a, b, j) ==
    IF j > Len(b) THEN <<>>
    ELSE LET rest == BigMulFrom(a, b, j + 1)
         IN  IF rest = <<>> THEN BigMulSmall(a, b[j])
             ELSE BigAdd(BigMulSmall(a, b[j]), <<0>> \o rest)
BigMul(a, b) == IF Len(a) < Len(b) THEN BigMulFrom(b, a, 1) ELSE BigMulFrom(a, b, 1)

\* a * 2^k
BigShl(a, k) ==
    IF k = 0 \/ a = <<>> THEN a
    ELSE LET q == k \div LimbBits
             s == k % LimbBits
         IN  BigNorm([i \in 1..(Len(a) + q + 1) |->
                         ((Limb(a, i - q) * 2^s) % Base)
                         + ((Limb(a, i - q - 1) * 2^s) \div Base)])
\* floor(a / 2^k)
BigShr(a, k) ==
    IF k = 0 \/ a = <<>> THEN a
    ELSE LET q == k \div LimbBits
             s == k % LimbBits
         IN  BigNorm([i \in 1..(Len(a) - q) |->
                         (Limb(a, i + q) \div 2^s)
                         + ((Limb(a, i + q + 1) % 2^s) * 2^(LimbBits - s))])

\* the number of bits of a
BitLen(a) ==
    IF a = <<>> THEN 0
    ELSE LimbBits * (Len(a) - 1) + Min({k \in 1..LimbBits : 2^k > a[Len(a)]})
\* the number of zero bits at the low end of a # 0
TrailingZeros(a) ==
    LET i == Min({j \in DOMAIN a : a[j] # 0})
    IN  LimbBits * (i - 1) + Max({k \in 0..(LimbBits - 1) : a[i] % 2^k = 0})

\* <<floor(cur / b), cur mod b>> for cur < Base * b and the top limb of b at
\* least Base / 2: the quotient of the top two limbs of cur by the top limb
\* of b is the limb or exceeds it by at most 2
QuotRem(cur, b) ==
    IF Len(cur) < Len(b) THEN <<0, cur>>
    ELSE LET n == Len(b)
             est == (Limb(cur, n + 1) * Base + cur[n]) \div b[n]
             qhat == IF est < Base THEN est ELSE Base - 1
             Fits(d) == BigCmp(BigMulSmall(b, d), cur) <= 0
             d == IF Fits(qhat) THEN qhat
                  ELSE IF Fits(qhat - 1) THEN qhat - 1 ELSE qhat - 2
         IN  <<d, BigSub(cur, BigMulSmall(b, d))>>

\* Long division of a by b > 0 of top limb at least Base / 2, from the top
\* limb of a down: <<the quotient, the remainder>>, given the limbs q of the
\* quotient and the remainder r that the limbs of a above limb i have left.
RECURSIVE BigDivLoop(_, _, _, _, _)
BigDivLoop(a, b, i, q, r) ==
    IF i = 0 THEN <<BigNorm(q), r>>
    ELSE LET step == QuotRem(BigNorm(<<a[i]>> \o r), b)
         IN  IF step[1] = 0 /\ q = <<>> THEN BigDivLoop(a, b, i - 1, q, step[2])
             ELSE BigDivLoop(a, b, i - 1, <<step[1]>> \o q, step[2])
BigDivMod(a, b) == BigDivLoop(a, b, Len(a), <<>>, <<>>)

\* the numbers (-1)^neg * m * 2^e, in canonical form: m odd, or m = 0,
\* e = 0 and no sign
Zero == [neg |-> FALSE, m |-> <<>>, e |-> 0]
Dy(neg, m, e) ==
    IF m = <<>> THEN Zero
    ELSE LET z == TrailingZeros(m) IN [neg |-> neg, m |-> BigShr(m, z), e |-> e + z]

FromInt(n) == IF n < 0 THEN Dy(TRUE, BigFromInt(-n), 0) ELSE Dy(FALSE, BigFromInt(n), 0)

DyNeg(a) == IF a.m = <<>> THEN a ELSE [a EXCEPT !.neg = ~a.neg]
\* -1, 0, 1 for |a| against |b|
DyCmpAbs(a, b) ==
    IF a.e <= b.e THEN BigCmp(a.m, BigShl(b.m, b.e - a.e))
    ELSE BigCmp(BigShl(a.m, a.e - b.e), b.m)
\* |a| + |b| with the sign neg
DyAddAbs(neg, a, b) ==
    IF a.e <= b.e THEN Dy(neg, BigAdd(a.m, BigShl(b.m, b.e - a.e)), a.e)
    ELSE Dy(neg, BigAdd(BigShl(a.m, a.e - b.e), b.m), b.e)
\* |a| - |b| with the sign neg, for |a| >= |b|
DySubAbs(neg, a, b) ==
    IF a.e <= b.e THEN Dy(neg, BigSub(a.m, BigShl(b.m, b.e - a.e)), a.e)
    ELSE Dy(neg, BigSub(BigShl(a.m, a.e - b.e), b.m), b.e)
DyAdd(a, b) ==
    IF a = Zero THEN b
    ELSE IF b = Zero THEN a
    ELSE IF a.neg = b.neg THEN DyAddAbs(a.neg, a, b)
    ELSE IF DyCmpAbs(a, b) >= 0 THEN DySubAbs(a.neg, a, b)
    ELSE DySubAbs(b.neg, b, a)
DySub(a, b) == DyAdd(a, DyNeg(b))
DyMul(a, b) ==
    IF a = Zero \/ b = Zero THEN Zero
    ELSE Dy(a.neg # b.neg, BigMul(a.m, b.m), a.e + b.e)
\* -1, 0, 1
DyCmp(a, b) ==
    IF a.neg # b.neg THEN (IF a.neg THEN -1 ELSE 1)
    ELSE IF a.neg THEN DyCmpAbs(b, a) ELSE DyCmpAbs(a, b)

\* (-1)^neg * m * 2^e (plus less than one unit of 2^e when sticky) rounded to
\* MantBits bits, ties to even
Round(neg, m, e, sticky) ==
    IF BitLen(m) <= MantBits THEN Dy(neg, m, e)
    ELSE LET d == BitLen(m) - MantBits
             q == BigShr(m, d)
             c == BigCmp(BigSub(m, BigShl(q, d)), BigShl(<<1>>, d - 1))
             up == c > 0 \/ (c = 0 /\ (sticky \/ q[1] % 2 = 1))
         IN  Dy(neg, IF up THEN BigAdd(q, <<1>>) ELSE q, e + d)
RoundDy(s) == Round(s.neg, s.m, s.e, FALSE)

\* the operations of the source on floats: the exact result, rounded
FAdd(a, b) == RoundDy(DyAdd(a, b))
FSub(a, b) == RoundDy(DySub(a, b))
FMul(a, b) ==
    IF a = Zero \/ b = Zero THEN Zero
    ELSE Round(a.neg # b.neg, BigMul(a.m, b.m), a.e + b.e, FALSE)
FLe(a, b) == DyCmp(a, b) <= 0

\* a / b for b # 0: the quotient of the mantissas to MantBits + 2 bits or
\* more and whether it is exact, rounded; both mantissas are shifted by s for
\* the divisor's top limb to be at least Base / 2
FDiv(a, b) ==
    IF a = Zero THEN Zero
    ELSE IF b.m = <<1>> THEN [neg |-> a.neg # b.neg, m |-> a.m, e |-> a.e - b.e]
    ELSE LET k0 == MantBits + 2 + BitLen(b.m) - BitLen(a.m)
             k == IF k0 > 0 THEN k0 ELSE 0
             s == (LimbBits - (BitLen(b.m) % LimbBits)) % LimbBits
             qr == BigDivMod(BigShl(a.m, k + s), BigShl(b.m, s))
         IN  IF qr[2] = <<>> THEN Dy(a.neg # b.neg, qr[1], a.e - b.e - k)
             ELSE Round(a.neg # b.neg, qr[1], a.e - b.e - k, TRUE)

(***************************************************************************)
(* The scoreboard.                                                         *)
(***************************************************************************)
\* the score of an unseen slot: "the worse possible percentage of difference"
SentinelScore == 100
Sentinel == <<FromInt(SentinelScore), "">>

\* ranking=[[100,""],[100,""],[100,""],[100,""],[100,""]]
ranking0 == <<Sentinel, Sentinel, Sentinel, Sentinel, Sentinel>>

\* The indices at which the for loop of addScore would break.
BreakAt(array, score) == {i \in 1..Len(array) : FLe(score, array[i][1])}

\* addScore with the break of the scan lost: i always ends at the last index.
addScore_noBreak(array, score, url) ==
    LET n == Len(array)
    IN  IF FLe(score, array[n][1])
        THEN [array EXCEPT ![n] = <<score, url>>]
        ELSE array

\* addScore with the shifting loop lost: the new entry overwrites entry i.
addScore_noShift(array, score, url) ==
    LET hits == BreakAt(array, score)
    IN  IF hits = {} THEN array
        ELSE [array EXCEPT ![Min(hits)] = <<score, url>>]

\* addScore whose shifting loop moves the scores and leaves the urls (line 87 lost).
addScore_noUrlShift(array, score, url) ==
    LET hits == BreakAt(array, score)
        i == IF hits = {} THEN Len(array) ELSE Min(hits)
    IN  IF hits = {} THEN array
        ELSE [p \in 1..Len(array) |->
                 IF p = i THEN <<score, url>>
                 ELSE IF p > i THEN <<array[p - 1][1], array[p][2]>>
                 ELSE array[p]]

\* addScore with the final test (line 90) lost: the store always happens.
addScore_noGuard(array, score, url) ==
    LET hits == BreakAt(array, score)
        i == IF hits = {} THEN Len(array) ELSE Min(hits)
    IN  [p \in 1..Len(array) |->
            IF p = i THEN <<score, url>>
            ELSE IF p > i /\ hits # {} THEN array[p - 1]
            ELSE array[p]]

\* addScore(array, score, url): the array as the call leaves it.
\*   i, j: the values of the source's i and j (plus one) when the for loop ends;
\*   shifted: the array after the while loop, which copies entry j-1 into entry j
\*            from the tail down to i+1;
\*   then the store at i, under the test of line 90.
addScore(array, score, url) ==
    LET n == Len(array)
        hits == BreakAt(array, score)
        i == IF hits = {} THEN n ELSE Min(hits)
        j == IF hits = {} THEN 1 ELSE n
        shifted == [p \in 1..n |-> IF p > i /\ p <= j THEN array[p - 1] ELSE array[p]]
    IN  IF FLe(score, shifted[i][1])
        THEN [shifted EXCEPT ![i] = <<score, url>>]
        ELSE shifted

(***************************************************************************)
(* match: the difference of two letters.                                   *)
(*                                                                         *)
(* A letter shape (the Polygon ttfont2poly returns) is modelled as an      *)
(* axis-aligned rectangle given by its bounds [minx, miny, maxx, maxy]     *)
(* in whole font units (>= 0); a rectangle of width or height 0 has area   *)
(* 0.  Scaling turns the bounds into floats.                               *)
(* A call either raises (an exception, named) or returns a number.         *)
(***************************************************************************)
NoResult == [kind |-> "none"]
Raised(e) == [kind |-> "error", err |-> e]
Returned(v) == [kind |-> "score", val |-> v]

\* the square of side s whose lowest corner is (x, y)
Sq(x, y, s) == [minx |-> x, miny |-> y, maxx |-> x + s, maxy |-> y + s]

\* poly.bounds: the bounds of a shape are whole numbers of font units
Bounds(poly) == [minx |-> FromInt(poly.minx), miny |-> FromInt(poly.miny),
                 maxx |-> FromInt(poly.maxx), maxy |-> FromInt(poly.maxy)]

\* x = poly.bounds[2] - poly.bounds[0]; y = poly.bounds[3] - poly.bounds[1]
getPolyFactor(poly) ==
    LET b == Bounds(poly)
    IN  <<FSub(b.maxx, b.minx), FSub(b.maxy, b.miny)>>

\* affinity.scale(poly, xfact, yfact, origin=(0,0)): every coordinate is
\* multiplied by its factor, in floating point
scale(poly, xfact, yfact) ==
    LET b == Bounds(poly)
    IN  [minx |-> FMul(b.minx, xfact), miny |-> FMul(b.miny, yfact),
         maxx |-> FMul(b.maxx, xfact), maxy |-> FMul(b.maxy, yfact)]

\* the exact length of the overlap of the intervals [lo1, hi1] and [lo2, hi2]
Overlap(lo1, hi1, lo2, hi2) ==
    LET lo == IF DyCmp(lo1, lo2) >= 0 THEN lo1 ELSE lo2
        hi == IF DyCmp(hi1, hi2) <= 0 THEN hi1 ELSE hi2
    IN  IF DyCmp(hi, lo) > 0 THEN DySub(hi, lo) ELSE Zero

\* the exact areas of a rectangle of float bounds, of the intersection of two
\* and of their union
RectArea(b) == DyMul(DySub(b.maxx, b.minx), DySub(b.maxy, b.miny))
ExactIntersection(p, q) ==
    DyMul(Overlap(p.minx, p.maxx, q.minx, q.maxx),
          Overlap(p.miny, p.maxy, q.miny, q.maxy))
ExactUnion(p, q) ==
    DySub(DyAdd(RectArea(p), RectArea(q)), ExactIntersection(p, q))

\* x is a multiple of 2^-ExactBits of size at most 2^ExactBits: the products
\* of two such coordinates, and the sums of the few products an area of two
\* rectangles is made of, have no more than MantBits bits
ExactBits == (MantBits - 5) \div 4
Plain(x) == x = Zero \/ (x.e >= 0 - ExactBits /\ BitLen(x.m) + x.e <= ExactBits)
PlainBounds(b) == Plain(b.minx) /\ Plain(b.miny) /\ Plain(b.maxx) /\ Plain(b.maxy)

\* the unit in the last place of the floats of the size of a > 0
Ulp(a) == [neg |-> FALSE, m |-> <<1>>, e |-> BitLen(a.m) + a.e - MantBits]

\* What .area may return for a region of exact area a that the geometry
\* library made from the rectangles p and q.  The library adds up an area
\* from products of the coordinates in floating point: when all the
\* coordinates are plain (whole font units are) every step is exact and so
\* is the area, and an empty region has area 0; for other coordinates the
\* order of its steps, which is not in the repository, decides the
\* rounding, and the area is any float >= 0 within AreaUlps units in the
\* last place (of the two areas' sum) of the exact area.
LibraryAreas(a, p, q) ==
    IF PlainBounds(q) /\ PlainBounds(p) THEN {RoundDy(a)}
    ELSE IF a = Zero THEN {Zero}
    ELSE LET u == Ulp(DyAdd(RectArea(p), RectArea(q)))
             near == {RoundDy(DyAdd(a, DyMul(FromInt(k), u))) :
                         k \in (0 - AreaUlps)..AreaUlps}
         IN  {x \in near : ~x.neg}

\* p.intersection(q).area and p.union(q).area (lines 165, 166, 170)
IntersectionArea(p, q) == LibraryAreas(ExactIntersection(p, q), p, q)
UnionArea(p, q) == LibraryAreas(ExactUnion(p, q), p, q)

\* (union.area - intersection.area)/union.area, line 170
Difference(interArea, unionArea) ==
    IF unionArea = Zero THEN Raised("ZeroDivisionError")
    ELSE Returned(FDiv(FSub(unionArea, interArea), unionArea))

\* The body of match's loop with the scaling of poly2 lost: poly2 is used as
\* it is.
LetterDifference_noScale(poly1, poly2) ==
    LET f2 == getPolyFactor(poly2)
    IN  IF f2[1] = Zero \/ f2[2] = Zero THEN {Raised("ZeroDivisionError")}
        ELSE {Difference(i, u) :
                 i \in IntersectionArea(Bounds(poly1), Bounds(poly2)),
                 u \in UnionArea(Bounds(poly1), Bounds(poly2))}

\* The body of match's loop (lines 159-170) for one letter: the factors, the
\* scaling of poly2 by (x1/x2, y1/y2) about the origin, the intersection, the
\* union, and (union.area - intersection.area)/union.area.  The outcomes it
\* may have: one, unless the scaled coordinates are not Plain.
\*   x1/x2 or y1/y2 raises ZeroDivisionError when poly2 has no width or height;
\*   the last division raises it when the union has area 0.
LetterDifference(poly1, poly2) ==
    LET f1 == getPolyFactor(poly1)
        f2 == getPolyFactor(poly2)
        x1 == f1[1]
        y1 == f1[2]
        x2 == f2[1]
        y2 == f2[2]
    IN  IF x2 = Zero \/ y2 = Zero THEN {Raised("ZeroDivisionError")}
        ELSE LET scale_poly2 == scale(poly2, FDiv(x1, x2), FDiv(y1, y2))
             IN  {Difference(i, u) :
                     i \in IntersectionArea(Bounds(poly1), scale_poly2),
                     u \in UnionArea(Bounds(poly1), scale_poly2)}

(***************************************************************************)
(* SpecMatch: the body of match's loop applied to any two letter shapes.   *)
(***************************************************************************)
\* the coordinates the bounds of the shapes are drawn from
Coords == {0, 10, 20, 40}
Regions == {[minx |-> a, miny |-> b, maxx |-> c, maxy |-> d] :
               a \in Coords, b \in Coords,
               c \in Coords, d \in Coords}
\* two more shapes, the ratio of whose sizes (1/49) is no binary fraction
FractionalShapes == {Sq(1, 1, 1), Sq(49, 49, 49)}
Shapes == {r \in Regions : r.minx <= r.maxx /\ r.miny <= r.maxy}
              \cup FractionalShapes

InitMatch ==
    /\ r1 \in Shapes
    /\ r2 \in Shapes
    /\ res = NoResult
    /\ ranking = ranking0 /\ history = <<>> /\ before = ranking0
    /\ pc = "none" /\ fonts = 0 /\ reference = "none"
    /\ catalog = <<>> /\ visited = <<>> /\ output = <<>>

MatchLetter ==
    /\ res = NoResult
    /\ res' \in LetterDifference(r1, r2)
    /\ UNCHANGED <<ranking, history, before, r1, r2, pc, fonts, reference,
                   catalog, visited, output>>

NextMatch == MatchLetter

SpecMatch == InitMatch /\ [][NextMatch]_vars

(***************************************************************************)
(* Spec: any sequence of addScore calls on the sentinel scoreboard.        *)
(***************************************************************************)
\* the scores (percentages) and urls the calls of Spec are made with
ScoreVals == {0, 50, 100}
Scores == {FromInt(s) : s \in ScoreVals}
Labels == {"a", "b"}

Idle == /\ r1 = "none" /\ r2 = "none" /\ res = NoResult
        /\ pc = "none" /\ fonts = 0 /\ reference = "none"
        /\ catalog = <<>> /\ visited = <<>> /\ output = <<>>

Init == /\ ranking = ranking0
        /\ history = <<>>
        /\ before = ranking0
        /\ Idle

AddScoreCall ==
    /\ Len(history) < MaxCalls
    /\ \E s \in Scores, u \in Labels :
          /\ ranking' = addScore(ranking, s, u)
          /\ history' = Append(history, <<s, u>>)
    /\ before' = ranking
    /\ UNCHANGED <<r1, r2, res, pc, fonts, reference, catalog, visited, output>>

Next == AddScoreCall

Spec == Init /\ [][Next]_vars

(***************************************************************************)
(* match on two font files.                                                *)
(*                                                                         *)
(* What a location holds: nothing ([kind |-> "missing"]), a file TTFont    *)
(* cannot decode ([kind |-> "undecodable"]), or a font ([kind |-> "ttf"])  *)
(* whose glyf table maps the letters it has to their shapes.               *)
(* match and the loop in it are given by the set of outcomes they may      *)
(* have: one, unless a letter's scaled coordinates are not Plain.          *)
(***************************************************************************)
\* check_chars = ['A','B','C']
check_chars == <<"A", "B", "C">>

\* TTFont(location, lazy=False): raises unless the location holds a font
TTFont(location) ==
    IF location.kind = "ttf" THEN Returned(location)
    ELSE IF location.kind = "missing" THEN Raised("FileNotFoundError")
    ELSE Raised("TTLibError")

\* ttfont2poly(font, letter): font['glyf'][letter] raises KeyError for a letter
\* the font does not have; otherwise the shape of the letter
ttfont2poly(font, letter) ==
    IF letter \in DOMAIN font.glyf THEN Returned(font.glyf[letter])
    ELSE Raised("KeyError")

\* The loop of match with a failing letter skipped: <<total, count>> over the
\* letters that produce a difference.
RECURSIVE SumLetters_skipFailed(_, _, _, _, _)
SumLetters_skipFailed(chars, font1, font2, total, count) ==
    IF chars = <<>> THEN {<<total, count>>}
    ELSE LET poly1 == ttfont2poly(font1, Head(chars))
             poly2 == ttfont2poly(font2, Head(chars))
         IN  IF poly1.kind = "error" \/ poly2.kind = "error"
             THEN SumLetters_skipFailed(Tail(chars), font1, font2, total, count)
             ELSE UNION {IF d.kind = "error"
                         THEN SumLetters_skipFailed(Tail(chars), font1, font2,
                                                    total, count)
                         ELSE SumLetters_skipFailed(Tail(chars), font1, font2,
                                                    FAdd(total, d.val), count + 1) :
                            d \in LetterDifference(poly1.val, poly2.val)}

\* match averaging over the letters that succeeded only.
match_skipFailed(chars, location1, location2) ==
    LET font1 == TTFont(location1)
        font2 == TTFont(location2)
    IN  IF font1.kind = "error" THEN {font1}
        ELSE IF font2.kind = "error" THEN {font2}
        ELSE {IF s[2] = 0 THEN Raised("ZeroDivisionError")
              ELSE Returned(FDiv(s[1], FromInt(s[2]))) :
                 s \in SumLetters_skipFailed(chars, font1.val, font2.val, Zero, 0)}

\* The loop of match (lines 153-170) over the letters chars, in order, from
\* the total so far: the total of the differences (total += ..., each sum
\* rounded), or the first exception raised.
RECURSIVE SumLetters(_, _, _, _)
SumLetters(chars, font1, font2, total) ==
    IF chars = <<>> THEN {Returned(total)}
    ELSE LET poly1 == ttfont2poly(font1, Head(chars))
             poly2 == ttfont2poly(font2, Head(chars))
         IN  IF poly1.kind = "error" THEN {poly1}
             ELSE IF poly2.kind = "error" THEN {poly2}
             ELSE UNION {IF d.kind = "error" THEN {d}
                         ELSE SumLetters(Tail(chars), font1, font2,
                                         FAdd(total, d.val)) :
                            d \in LetterDifference(poly1.val, poly2.val)}

\* match(check_chars, location1, location2): total/count, or the exception
match(chars, location1, location2) ==
    LET font1 == TTFont(location1)
        font2 == TTFont(location2)
    IN  IF font1.kind = "error" THEN {font1}
        ELSE IF font2.kind = "error" THEN {font2}
        ELSE {IF s.kind = "error" THEN s
              ELSE IF Len(chars) = 0 THEN Raised("ZeroDivisionError")
              ELSE Returned(FDiv(s.val, FromInt(Len(chars)))) :
                 s \in SumLetters(chars, font1.val, font2.val, Zero)}

(***************************************************************************)
(* The main program, Google Fonts branch (local_font2 = False).            *)
(***************************************************************************)
lower_bound == 1
upper_bound == 50

\* the url of catalog item k (0-based): data['items'][k]['files']['regular']
font_URL(k) == ToString(k)

\* open(location1, "r") under try/except (lines 210-213): a missing file is
\* reported and the program goes on to the loop.
LoadReference ==
    /\ pc = "start"
    /\ output' = IF reference.kind = "missing"
                 THEN Append(output, [text |-> "Could not find font"])
                 ELSE output
    /\ fonts' = lower_bound
    /\ pc' = "loop"
    /\ UNCHANGED <<ranking, history, before, r1, r2, res, reference, catalog, visited>>

\* One iteration up to the try (lines 216-223): the item is looked up in the
\* catalog (IndexError, uncaught, when the catalog is too short) and its
\* file is fetched.
Fetch ==
    /\ pc = "loop"
    /\ fonts < upper_bound
    /\ IF fonts >= Len(catalog)
       THEN /\ pc' = "crashed"
            /\ UNCHANGED visited
       ELSE /\ pc' = "score"
            /\ visited' = Append(visited, fonts)
    /\ UNCHANGED <<ranking, history, before, r1, r2, res, fonts, reference,
                   catalog, output>>

\* The try of the iteration (lines 226-231): match, then addScore with
\* score*100; any exception is passed over.  Then the next iteration.
ScoreCandidate ==
    /\ pc = "score"
    /\ \E score \in match(check_chars, reference, catalog[fonts + 1]) :
          IF score.kind = "score"
          THEN /\ ranking' = addScore(ranking, FMul(score.val, FromInt(100)),
                                      font_URL(fonts))
               /\ history' = Append(history, <<FMul(score.val, FromInt(100)),
                                               font_URL(fonts)>>)
               /\ before' = ranking
          ELSE UNCHANGED <<ranking, history, before>>
    /\ fonts' = fonts + 1
    /\ pc' = "loop"
    /\ UNCHANGED <<r1, r2, res, reference, catalog, visited, output>>

\* printScore(ranking) once the range is exhausted (line 233)
PrintScore ==
    /\ pc = "loop"
    /\ fonts >= upper_bound
    /\ output' = Append(output, [text |-> "Your Fonts are here:", array |-> ranking])
    /\ pc' = "done"
    /\ UNCHANGED <<ranking, history, before, r1, r2, res, fonts, reference,
                   catalog, visited>>

(***************************************************************************)
(* SpecMain: the main program on a reference font and a catalog.           *)
(***************************************************************************)
Ttf(g) == [kind |-> "ttf", glyf |-> g]
Missing == [kind |-> "missing"]
Undecodable == [kind |-> "undecodable"]

\* what location1 may hold
ReferenceFonts ==
    { Ttf("A" :> Sq(0, 0, 10) @@ "B" :> Sq(0, 0, 10) @@ "C" :> Sq(0, 0, 10)),
      Missing, Undecodable }

\* the fonts the catalog is made of: letters equal to the reference's up to
\* size, a letter without a glyph, letters displaced, a file that is no
\* font, letters apart, a letter without width, and two fonts whose letters
\* differ from the reference's by the same three numbers (2/11, 2/11, 4/7)
\* in another order, so that their totals differ in the last place.  Scaled
\* to the reference, all their coordinates are whole numbers.
FontKinds ==
    << Ttf("A" :> Sq(0, 0, 20) @@ "B" :> Sq(0, 0, 20) @@ "C" :> Sq(0, 0, 20)),
       Ttf("A" :> Sq(0, 0, 20) @@ "C" :> Sq(0, 0, 20)),
       Ttf("A" :> Sq(0, 0, 20) @@ "B" :> Sq(0, 0, 20) @@ "C" :> Sq(10, 0, 20)),
       Undecodable,
       Ttf("A" :> Sq(40, 40, 20) @@ "B" :> Sq(40, 40, 20) @@ "C" :> Sq(40, 40, 20)),
       Ttf("A" :> Sq(0, 0, 20) @@ "B" :> Sq(0, 0, 20)
           @@ "C" :> [minx |-> 0, miny |-> 0, maxx |-> 0, maxy |-> 20]),
       Ttf("A" :> Sq(2, 0, 20) @@ "B" :> Sq(2, 0, 20) @@ "C" :> Sq(8, 0, 20)),
       Ttf("A" :> Sq(8, 0, 20) @@ "B" :> Sq(2, 0, 20) @@ "C" :> Sq(2, 0, 20)) >>

\* the catalogs: n items that run through FontKinds from item b in steps of a
Strides == {1, 3}
Catalog(n, a, b) ==
    [i \in 1..n |-> FontKinds[((a * (i - 1) + b) % Len(FontKinds)) + 1]]
CatalogSizes == {upper_bound - 1, upper_bound}

InitMain ==
    /\ pc = "start"
    /\ fonts = 0
    /\ reference \in ReferenceFonts
    /\ catalog \in {Catalog(n, a, b) :
                       n \in CatalogSizes, a \in Strides, b \in 0..(Len(FontKinds) - 1)}
    /\ visited = <<>>
    /\ output = <<>>
    /\ ranking = ranking0 /\ history = <<>> /\ before = ranking0
    /\ r1 = "none" /\ r2 = "none" /\ res = NoResult

NextMain == LoadReference \/ Fetch \/ ScoreCandidate \/ PrintScore

SpecMain == InitMain /\ [][NextMain]_vars

(***************************************************************************)
(* The claims about the scoreboard, checked under Spec.                    *)
(***************************************************************************)
\* a score strictly better than another
FLt(a, b) == DyCmp(a, b) < 0
Count(seq, v) == Cardinality({p \in DOMAIN seq : seq[p] = v})
ScoresOf(seq) == [p \in DOMAIN seq |-> seq[p][1]]
LastScore == history[Len(history)][1]
LastUrl == history[Len(history)][2]

\* C1: after any sequence of addScore calls on the sentinel scoreboard, the
\* scoreboard holds as many entries as it began with, ascending by score.
C1_SortedAndFull ==
    /\ Len(ranking) = Len(ranking0)
    /\ \A p \in 1..(Len(ranking) - 1) : FLe(ranking[p][1], ranking[p + 1][1])

\* a scoreboard holding two inserted entries of different scores, the better
\* of which was inserted by the latest call
C1_Witness ==
    /\ Len(history) >= 2
    /\ \E p \in 1..(Len(ranking) - 1) :
          /\ ranking[p] = <<LastScore, LastUrl>>
          /\ ranking[p + 1][2] # ""
          /\ FLt(ranking[p][1], ranking[p + 1][1])

\* C2: the scores on the scoreboard are the K lowest of the sentinel scores
\* together with every score inserted so far (they are among them, one for
\* one, and whatever was left out is no better than any score kept), and
\* every entry is a sentinel or a <<score, url>> pair that was inserted.
C2_KLowestWithLabels ==
    LET all == ScoresOf(ranking0) \o ScoresOf(history)
        kept == ScoresOf(ranking)
        vals == {all[p] : p \in DOMAIN all} \cup {kept[p] : p \in DOMAIN kept}
    IN  /\ Len(kept) = Len(ranking0)
        /\ \A v \in vals : Count(kept, v) <= Count(all, v)
        /\ \A v \in vals : Count(kept, v) < Count(all, v)
              => \A p \in DOMAIN kept : FLe(kept[p], v)
        /\ \A p \in DOMAIN ranking :
              \/ ranking[p] = Sentinel
              \/ /\ ranking[p][2] # ""
                 /\ Count(ranking, ranking[p]) <= Count(history, ranking[p])

\* more candidates inserted than the scoreboard holds, no sentinel left, and
\* an inserted score that is strictly worse than the worst one kept
C2_Witness ==
    /\ Len(history) > Len(ranking0)
    /\ \A p \in DOMAIN ranking : ranking[p][2] # ""
    /\ \E h \in DOMAIN history : FLt(ranking[Len(ranking)][1], history[h][1])
    /\ \E p \in DOMAIN ranking : \E q \in DOMAIN ranking : ranking[p][1] # ranking[q][1]

\* C3: a call with a score better than the current worst writes the new
\* entry at the first index i whose score is >= the new score, leaves the
\* entries before i alone, moves the entries formerly at i..K-1 one place
\* toward the tail, and loses the entry formerly at the last index.
C3_InsertShiftsAndEvictsWorst ==
    (Len(history) > 0 /\ FLt(LastScore, before[Len(before)][1])) =>
        LET i == Min({p \in DOMAIN before : FLe(LastScore, before[p][1])})
        IN  /\ ranking[i] = <<LastScore, LastUrl>>
            /\ \A p \in 1..(i - 1) : ranking[p] = before[p]
            /\ \A p \in i..(Len(before) - 1) : ranking[p + 1] = before[p]
            /\ Len(ranking) = Len(before)

\* a full scoreboard of inserted entries, into the middle of which the
\* latest call inserted, moving entries with other urls and evicting an
\* inserted entry
C3_Witness ==
    /\ Len(history) > Len(ranking0)
    /\ before[Len(before)][2] # ""
    /\ FLt(LastScore, before[Len(before)][1])
    /\ \E i \in 2..(Len(ranking) - 1) :
          /\ ranking[i] = <<LastScore, LastUrl>>
          /\ ranking[i - 1] # ranking[i]
          /\ ranking[i + 1][2] # LastUrl

\* C4: a call with a score strictly greater than every score on the
\* scoreboard changes no entry.
C4_WorseThanAllNoChange ==
    (Len(history) > 0 /\ \A p \in DOMAIN before : FLt(before[p][1], LastScore))
        => ranking = before

\* the latest call was made with a score worse than all the entries
C4_Witness ==
    /\ Len(history) > 0
    /\ \A p \in DOMAIN before : FLt(before[p][1], LastScore)

\* C5: first found wins: a candidate already on the scoreboard keeps its
\* place when a later candidate arrives with an equal score, so that the
\* earlier one stays ranked above the later one and is not evicted by it.
C5_FirstFoundWins ==
    Len(history) > 0 =>
        \A p \in DOMAIN before :
            (before[p][1] = LastScore /\ before[p][2] # "") => ranking[p] = before[p]

(***************************************************************************)
(* The claims about the difference of two letters, checked under SpecMatch.*)
(***************************************************************************)
Area(poly) == (poly.maxx - poly.minx) * (poly.maxy - poly.miny)
IsSquare(poly) == poly.maxx - poly.minx = poly.maxy - poly.miny /\ Area(poly) > 0
Side(poly) == poly.maxx - poly.minx

\* C8: when both shapes are empty (their union has area 0), the difference
\* of the letter is 0 and no arithmetic error is raised.
C8_EmptyShapesScoreZero ==
    (res # NoResult /\ Area(r1) = 0 /\ Area(r2) = 0) => res = Returned(Zero)

\* C9: two squares that differ only in size, wherever each is placed,
\* have difference 0 after the scaling done by match.
C9_SquaresScoreZeroAnywhere ==
    (res # NoResult /\ IsSquare(r1) /\ IsSquare(r2)) => res = Returned(Zero)

\* the second shape as match scales it (line 162)
Scaled(poly1, poly2) ==
    LET f1 == getPolyFactor(poly1)
        f2 == getPolyFactor(poly2)
    IN  scale(poly2, FDiv(f1[1], f2[1]), FDiv(f1[2], f2[2]))
\* two rectangles of float bounds that have no area in common
Apart(p, q) ==
    \/ DyCmp(p.maxx, q.minx) <= 0 \/ DyCmp(q.maxx, p.minx) <= 0
    \/ DyCmp(p.maxy, q.miny) <= 0 \/ DyCmp(q.maxy, p.miny) <= 0

\* C9 as amended: for two shapes that differ only in size (here: any two
\* rectangles of some area, as match scales each axis by its own factor)
\* the difference is 0 when the second, scaled about the origin by the
\* floating-point factors x1/x2 and y1/y2, falls exactly on the first, and
\* it is 1 when the scaled second has no area in common with the first.
C9_ZeroWhenScaledCoincides ==
    (res # NoResult /\ Area(r1) > 0 /\ Area(r2) > 0) =>
        /\ res.kind = "score"
        /\ Scaled(r1, r2) = Bounds(r1) => res.val = Zero
        /\ Apart(Bounds(r1), Scaled(r1, r2)) => res.val = FromInt(1)

\* a square compared with a square of another side, both away from the
\* origin, the second of which falls on the first when scaled: difference 0
C9_Witness ==
    /\ res = Returned(Zero)
    /\ Scaled(r1, r2) = Bounds(r1)
    /\ IsSquare(r1) /\ IsSquare(r2)
    /\ Side(r1) # Side(r2)
    /\ r1.minx > 0 /\ r1.miny > 0

(***************************************************************************)
(* The claims about the main program, checked under SpecMain.              *)
(***************************************************************************)
\* Scoring the candidate font against the reference raises: a file that is
\* no font, a letter of check_chars without a glyph, a candidate letter
\* without width or height, or two letters whose union has no area.
LetterRaises(ref, cand, c) ==
    \/ c \notin DOMAIN ref.glyf
    \/ c \notin DOMAIN cand.glyf
    \/ Area(cand.glyf[c]) = 0
    \/ Area(ref.glyf[c]) = 0
ScoringRaises(ref, cand) ==
    \/ ref.kind # "ttf"
    \/ cand.kind # "ttf"
    \/ \E p \in DOMAIN check_chars : LetterRaises(ref, cand, check_chars[p])

\* the values score*100 may have, for every reference font and every font of
\* the catalogs
ScoreOf ==
    [ref \in ReferenceFonts |->
        [k \in DOMAIN FontKinds |->
            {FMul(score.val, FromInt(100)) :
                score \in {s \in match(check_chars, ref, FontKinds[k]) :
                              s.kind = "score"}}]]
KindOf(font) == CHOOSE k \in DOMAIN FontKinds : FontKinds[k] = font

\* The scoreboards that the candidates lower_bound..k alone that score
\* without an error may make, inserted in catalog order.
RECURSIVE BoardOfScored(_)
BoardOfScored(k) ==
    IF k < lower_bound THEN {ranking0}
    ELSE LET boards == BoardOfScored(k - 1)
         IN  IF boards = {} \/ ScoringRaises(reference, catalog[k + 1]) THEN boards
             ELSE {addScore(b, s, font_URL(k)) :
                      b \in boards,
                      s \in ScoreOf[reference][KindOf(catalog[k + 1])]}

\* C6: a candidate whose scoring raises an error leaves the scoreboard as it
\* was and the loop goes on: between iterations and at the end, the
\* scoreboard is the one the candidates that scored without error make,
\* as if the failed ones had not been in the list.
C6_FailedCandidateSkipped ==
    (pc \in {"loop", "done"}) => ranking \in BoardOfScored(fonts - 1)

\* the loop has ended; a candidate with a letter missing and one with a
\* letter of no width were met, and a candidate met after them is on the
\* scoreboard
C6_Witness ==
    /\ pc = "done"
    /\ reference.kind = "ttf"
    /\ \E k \in lower_bound..(upper_bound - 1) :
          /\ catalog[k + 1].kind = "ttf"
          /\ "B" \notin DOMAIN catalog[k + 1].glyf
          /\ \E p \in DOMAIN ranking :
                \E k2 \in (k + 1)..(upper_bound - 1) : ranking[p][2] = font_URL(k2)
    /\ \E k \in lower_bound..(upper_bound - 1) :
          /\ catalog[k + 1].kind = "ttf"
          /\ "C" \in DOMAIN catalog[k + 1].glyf
          /\ Area(catalog[k + 1].glyf["C"]) = 0

\* C7: when the reference font fails to load, the run stops: no candidate
\* is fetched and no scoreboard is printed.
C7_ReferenceFailureStopsRun ==
    reference.kind # "ttf" =>
        /\ visited = <<>>
        /\ \A p \in DOMAIN output : output[p].text # "Your Fonts are here:"

\* C10: with lower_bound = 1 and upper_bound = 50, the 50 most popular
\* catalog items, from the first (index 0) to the 50th (index 49), have each
\* been visited once, in order, when the scoreboard is printed.
C10_FirstFiftyVisited ==
    pc = "done" => visited = [p \in 1..upper_bound |-> p - 1]

====
